---- MODULE Spec2Model ----
(***************************************************************************)
(* PicToWebP: the batch conversion pipeline.                               *)
(*                                                                         *)
(* Three entry points run the pipeline:                                    *)
(*   "cli"    src/src/convert.py main() -> convert_images                  *)
(*   "served" src/src/app.py POST /convert -> convert_images               *)
(*   "legacy" src/convert_to_webp.py convert_images_to_webp                *)
(* The first two share src/src/utils.py (interactive collision policy,     *)
(* results funnelled through the collecting thread); the third has its own *)
(* create_output_folder (auto-backup) and lets the pool threads update the *)
(* shared stats dictionary.                                                *)
(*                                                                         *)
(* app.py also imports global_conversion_progress from convert, a name     *)
(* this convert.py does not define; the served entry point is modelled by  *)
(* what its handler does: it calls convert_images.                         *)
(***************************************************************************)
EXTENDS Integers, Sequences, FiniteSets, TLC

\* ---------------------------------------------------------------- bounds
MaxFiles == 2
MaxThreads == 2
MaxRuns == 3
MaxTime == 1

\* get_user_input_for_folder(..., max_retries: int = 3)
max_retries == 3

NoTree == -1

\* Something that is no directory (a regular file) sits at the output path.
NotADir == -2

Variants == {"cli", "served", "legacy"}
Modular == {"cli", "served"}

\* What happens to one source file when a worker gets to it.
\*   ok           decodes and encodes
\*   unidentified Image.open raises UnidentifiedImageError / PermissionError /
\*                FileNotFoundError (the file vanished after stat)
\*   vanished     the file vanished before stat()/getsize(): FileNotFoundError
\*   truncated    decoding raises another error (OSError: image file is truncated)
Kinds == {"ok", "unidentified", "vanished", "truncated"}

\* What the user types at the prompt, before .lower().
RawAnswers == {"y", "Y", "n", "N", "yes", ""}

Files == 1..MaxFiles
Workers == 1..MaxThreads
Times == 0..MaxTime

VARIABLES
    variant,    \* which entry point runs
    run,        \* number of the run in progress (runs share the file system)
    pc,         \* position of the main thread
    outcome,    \* how the run ended: "running", "returned" or the exception that escaped
    raised,     \* the exception create_output_folder raised, "none" if it returned
    srcIsDir,   \* the source folder exists
    numFiles,   \* number of image files discovery finds
    kind,       \* kind[f]: what happens when file f is converted
    threads,    \* max_workers
    out,        \* the tree at the output root: NoTree, 0 (an earlier output) or a run number
    out0,       \* the output root when the run started
    backup,     \* backup[t]: the trees at <output>_backup_<t> (top) and inside it (inner)
    now,        \* int(time()) of the last backup
    outFiles,   \* files written under the output root by this run
    fsOps,      \* file system operations this run has made on the output root
    made,       \* the trees that were ever created at the output root
    creates,    \* number of times this run created the output root
    prompts,    \* number of times the prompt was shown in this run
    answer,     \* the last user_input (lower-cased), "none" before the first
    nextTask,   \* index of the first future no worker has taken
    result,     \* result[f]: the future of file f
    collected,  \* number of futures the main thread has consumed
    wtask,      \* wtask[w]: the file worker w is processing, 0 when idle
    wpc,        \* wpc[w]: position of worker w inside process_file
    wtmp,       \* wtmp[w]: the value worker w loaded for its pending +=
    stats,      \* the Stats aggregate
    report,     \* what generate_report logged
    reports,    \* number of calls of generate_report in this run
    httpStatus, \* status code the /convert handler answered, 0 before it answers
    progress,   \* the progress object the /progress endpoint reads
    discovery,  \* get_image_files on a directory tree
    boundary,   \* the settings on their way into convert_images
    merge,      \* update_conversion_stats over a list of results
    sched,      \* executor.map over a file list
    paths       \* output paths of a set of source files

mainVars == <<variant, run, pc, outcome, raised, srcIsDir, numFiles, kind, threads,
              out, out0, backup, now, outFiles, fsOps, made, creates, prompts, answer,
              nextTask, result, collected, wtask, wpc, wtmp, stats, report,
              reports, httpStatus, progress>>

\* The state of the checks of the pure parts.
pureVars == <<discovery, boundary, merge, sched, paths>>

vars == <<mainVars, pureVars>>

cfgVars == <<variant, srcIsDir, numFiles, kind, threads>>
fsVars == <<out, backup, now, outFiles, fsOps, made, creates>>
promptVars == <<prompts, answer>>
poolVars == <<nextTask, result, wtask, wpc, wtmp>>

\* ---------------------------------------------------------------- sizes
\* st_size of source file f and of its converted output.
OrigSize(f) == 2 * f + 1
ConvSize(f) == f

\* ---------------------------------------------------------------- pure parts
EmptyStats == [total_original_size |-> 0, total_converted_size |-> 0, conversion_count |-> 0]

\* The converted size is stored, not added.
update_conversion_stats_stored(s, original_size, converted_size, files_converted) ==
    [total_original_size |-> s.total_original_size + original_size,
     total_converted_size |-> converted_size,
     conversion_count |-> s.conversion_count + files_converted]

\* convert.update_conversion_stats
update_conversion_stats(s, original_size, converted_size, files_converted) ==
    [total_original_size |-> s.total_original_size + original_size,
     total_converted_size |-> s.total_converted_size + converted_size,
     conversion_count |-> s.conversion_count + files_converted]

Pending == [st |-> "pending", val |-> <<0, 0, 0>>]
Cancelled == [st |-> "cancelled", val |-> <<0, 0, 0>>]
Returned(v) == [st |-> "value", val |-> v]
ReturnedNone == [st |-> "none", val |-> <<0, 0, 0>>]
Raised == [st |-> "raised", val |-> <<0, 0, 0>>]

\* utils.process_file: the tuple it returns, or "raises" when the exception is
\* not one of (UnidentifiedImageError, PermissionError, FileNotFoundError)
\* raised inside the try block.
process_file(k, f) ==
    CASE k = "ok" -> Returned(<<OrigSize(f), ConvSize(f), 1>>)
      [] k = "unidentified" -> Returned(<<0, 0, 0>>)
      [] OTHER -> Raised

\* convert.worker: returns process_file's tuple; on any exception it logs and
\* falls off the end of the function, returning None.
worker(k, f) ==
    IF process_file(k, f).st = "raised" THEN ReturnedNone ELSE process_file(k, f)

\* input(prompt).lower()
Lower(s) ==
    CASE s = "Y" -> "y"
      [] s = "N" -> "n"
      [] OTHER -> s

allowed_responses == {"y", "n"}

\* The folder is replaced whatever the answer was.
ReplaceAlways(user_input) == TRUE

\* create_output_folder: 'if user_input == "n": raise ...' else rmtree.
ReplaceConfirmed(user_input) == user_input # "n"

\* generate_report: the percentage, floored; "ZeroDivisionError" when the
\* divisor total_original_size is 0.
ReductionPercentage(s) ==
    ((s.total_original_size - s.total_converted_size) * 100) \div s.total_original_size

NoReport == [emitted |-> FALSE, conversion_count |-> 0, reduction_percentage |-> 0]

\* generate_report: what it logs.
generate_report(s) ==
    [emitted |-> TRUE, conversion_count |-> s.conversion_count,
     reduction_percentage |-> ReductionPercentage(s)]

TreeExists(t) ==
    \/ out = t
    \/ \E ts \in Times : backup[ts].top = t \/ backup[ts].inner = t

NoBackup == [ts \in Times |-> [top |-> NoTree, inner |-> NoTree]]

\* What /progress can read: app.py imports global_conversion_progress from
\* convert, and convert.py binds no such name and writes no such object.
NoProgress == [present |-> FALSE, numFiles |-> 0, stats |-> EmptyStats]

\* No check of a pure part is in progress.
Unused == [st |-> "unused"]
PureUnused ==
    /\ discovery = Unused
    /\ boundary = Unused
    /\ merge = Unused
    /\ sched = Unused
    /\ paths = Unused

\* ---------------------------------------------------------------- Init
MainInit ==
    /\ variant \in Variants
    /\ run = 1
    /\ pc = "start"
    /\ outcome = "running"
    /\ raised = "none"
    /\ srcIsDir \in BOOLEAN
    /\ (variant \in Modular => srcIsDir)
    /\ numFiles \in 0..MaxFiles
    /\ (~srcIsDir => numFiles = 0)
    /\ kind \in [Files -> Kinds]
    /\ \A f \in Files : f > numFiles => kind[f] = "ok"
    /\ threads \in 1..MaxThreads
    /\ out \in {NoTree, NotADir, 0}
    /\ out0 = out
    /\ backup = NoBackup
    /\ now = 0
    /\ outFiles = {}
    /\ fsOps = {}
    /\ made = IF out = 0 THEN {0} ELSE {}
    /\ creates = 0
    /\ prompts = 0
    /\ answer = "none"
    /\ nextTask = 1
    /\ result = [f \in Files |-> Pending]
    /\ collected = 0
    /\ wtask = [w \in Workers |-> 0]
    /\ wpc = [w \in Workers |-> "idle"]
    /\ wtmp = [w \in Workers |-> 0]
    /\ stats = EmptyStats
    /\ report = NoReport
    /\ reports = 0
    /\ httpStatus = 0
    /\ progress = NoProgress

Init == MainInit /\ PureUnused

\* mkdir without the rmtree or the move before it: the old tree stays.
SameTree(old, r) == IF old = NoTree THEN r ELSE old

\* The directory at the output root after rmtree/move and mkdir in run r.
NewTree(old, r) == r

\* 'for ... in executor.map(...)' is exhausted after n results.
LoopDone(n) == n = numFiles

\* The run ends: the main thread is done with `how`.
Finish(how) ==
    /\ pc' = "done"
    /\ outcome' = how

\* ---------------------------------------------------------------- convert_images
\* main() / the /convert handler: the source folder has been validated.
Enter ==
    /\ variant \in Modular
    /\ pc = "start"
    /\ pc' = "discover"
    /\ stats' = EmptyStats
    /\ UNCHANGED <<run, outcome, raised, cfgVars, out0, fsVars, promptVars, poolVars,
                   collected, report, reports, httpStatus, progress, pureVars>>

\* file_list = get_image_files(...); if not file_list: return
Discover ==
    /\ variant \in Modular
    /\ pc = "discover"
    /\ IF numFiles = 0
         THEN Finish("returned")
         ELSE pc' = "collision" /\ UNCHANGED outcome
    /\ UNCHANGED <<run, raised, cfgVars, out0, fsVars, promptVars, poolVars,
                   collected, stats, report, reports, httpStatus, progress, pureVars>>

\* utils.create_output_folder up to the prompt: is_dir() decides.
CreateOutputFolder ==
    /\ variant \in Modular
    /\ pc = "collision"
    /\ IF out \notin {NoTree, NotADir}
         THEN /\ pc' = "prompt"
              /\ UNCHANGED <<outcome, raised, fsVars>>
         ELSE IF out = NotADir
                THEN \* mkdir(parents=True, exist_ok=True) on a file: FileExistsError
                     /\ raised' = "FileExistsError"
                     /\ Finish("FileExistsError")
                     /\ UNCHANGED fsVars
                ELSE /\ out' = NewTree(out, run)
                     /\ made' = made \cup {run}
                     /\ creates' = creates + 1
                     /\ outFiles' = {}
                     /\ fsOps' = fsOps \cup {"mkdir"}
                     /\ pc' = "dispatch"
                     /\ UNCHANGED <<outcome, raised, backup, now>>
    /\ UNCHANGED <<run, cfgVars, out0, promptVars, poolVars,
                   collected, stats, report, reports, httpStatus, progress, pureVars>>

\* One pass of the loop of get_user_input_for_folder, and what
\* create_output_folder and convert_images do with its result.
Prompt ==
    /\ variant \in Modular
    /\ pc = "prompt"
    /\ prompts < max_retries
    /\ \E raw \in RawAnswers :
         LET user_input == Lower(raw) IN
         /\ prompts' = prompts + 1
         /\ answer' = user_input
         /\ IF user_input \in allowed_responses
              THEN IF ReplaceConfirmed(user_input)
                     THEN \* shutil.rmtree(output_folder); output_folder.mkdir(...)
                          /\ out' = NewTree(out, run)
                          /\ made' = made \cup {run}
                          /\ creates' = creates + 1
                          /\ outFiles' = {}
                          /\ fsOps' = fsOps \cup {"rmtree", "mkdir"}
                          /\ pc' = "dispatch"
                          /\ UNCHANGED <<outcome, raised, backup, now>>
                     ELSE \* raise OperationCancelledError; convert_images logs it and returns
                          /\ raised' = "OperationCancelledError"
                          /\ Finish("returned")
                          /\ UNCHANGED fsVars
              ELSE IF prompts + 1 = max_retries
                     THEN \* raise ValueError: not caught by convert_images
                          /\ raised' = "ValueError"
                          /\ Finish("ValueError")
                          /\ UNCHANGED fsVars
                     ELSE UNCHANGED <<pc, outcome, raised, fsVars>>
    /\ UNCHANGED <<run, cfgVars, out0, poolVars, collected, stats,
                   report, reports, httpStatus, progress, pureVars>>

\* ---------------------------------------------------------------- the pool
\* executor.map(fn, file_list): one future per file, submitted in list order
\* before the first result is asked for.
Dispatch ==
    /\ pc = "dispatch"
    /\ nextTask' = 1
    /\ result' = [f \in Files |-> Pending]
    /\ collected' = 0
    /\ pc' = IF numFiles = 0 THEN "report" ELSE "collect"
    /\ UNCHANGED <<run, outcome, raised, cfgVars, out0, fsVars, promptVars,
                   wtask, wpc, wtmp, stats, report, reports, httpStatus, progress, pureVars>>

\* An idle pool thread takes the next work item off the queue. The threads
\* of the pool are interchangeable: the idle one with the least index stands
\* for whichever thread the queue wakes.
Take(w) ==
    /\ pc \in {"collect", "unwind"}
    /\ w <= threads
    /\ wtask[w] = 0
    /\ \A v \in 1..(w - 1) : wtask[v] # 0
    /\ nextTask <= numFiles
    /\ result[nextTask].st = "pending"
    /\ wtask' = [wtask EXCEPT ![w] = nextTask]
    /\ wpc' = [wpc EXCEPT ![w] = IF variant = "legacy" THEN "getsize" ELSE "process"]
    /\ nextTask' = nextTask + 1
    /\ UNCHANGED <<run, pc, outcome, raised, cfgVars, out0, fsVars, promptVars,
                   result, collected, wtmp, stats, report, reports, httpStatus, progress, pureVars>>

\* The futures no worker has taken are cancelled.
CancelPending == [f \in Files |-> IF f >= nextTask /\ f <= numFiles THEN Cancelled ELSE result[f]]

\* The worker adds what it returns to the aggregate itself.
ProcessWritesStats(w) ==
    /\ variant \in Modular
    /\ wpc[w] = "process"
    /\ LET f == wtask[w] IN
         /\ result' = [result EXCEPT ![f] = worker(kind[f], f)]
         /\ stats' = IF worker(kind[f], f).st = "value"
                      THEN update_conversion_stats(stats, worker(kind[f], f).val[1],
                                                   worker(kind[f], f).val[2],
                                                   worker(kind[f], f).val[3])
                      ELSE stats
         /\ IF kind[f] = "ok"
              THEN /\ outFiles' = outFiles \cup {f}
                   /\ fsOps' = fsOps \cup {"write"}
              ELSE UNCHANGED <<outFiles, fsOps>>
    /\ wtask' = [wtask EXCEPT ![w] = 0]
    /\ wpc' = [wpc EXCEPT ![w] = "idle"]
    /\ UNCHANGED <<run, pc, outcome, raised, cfgVars, out0, out, backup, now, made, creates,
                   promptVars,
                   nextTask, collected, wtmp, report, reports, httpStatus, progress, pureVars>>

\* convert.worker on one file (utils.process_file inside it).
Process(w) ==
    /\ variant \in Modular
    /\ wpc[w] = "process"
    /\ LET f == wtask[w] IN
         /\ result' = [result EXCEPT ![f] = worker(kind[f], f)]
         /\ IF kind[f] = "ok"
              THEN /\ outFiles' = outFiles \cup {f}
                   /\ fsOps' = fsOps \cup {"write"}
              ELSE UNCHANGED <<outFiles, fsOps>>
    /\ wtask' = [wtask EXCEPT ![w] = 0]
    /\ wpc' = [wpc EXCEPT ![w] = "idle"]
    /\ UNCHANGED <<run, pc, outcome, raised, cfgVars, out0, out, backup, now, made, creates,
                   promptVars,
                   nextTask, collected, wtmp, stats,
                   report, reports, httpStatus, progress, pureVars>>

\* One iteration of 'for original_size, converted_size, files_converted in
\* executor.map(...)': results come in list order. Unpacking None raises
\* TypeError; the abandoned result iterator cancels the pending futures when
\* it is collected, which may be before or after the pool is shut down.
Collect ==
    /\ variant \in Modular
    /\ pc = "collect"
    /\ collected < numFiles
    /\ LET r == result[collected + 1] IN
         /\ r.st \in {"value", "none"}
         /\ IF r.st = "value"
              THEN /\ stats' = update_conversion_stats(stats, r.val[1], r.val[2], r.val[3])
                   /\ collected' = collected + 1
                   /\ pc' = IF LoopDone(collected + 1) THEN "report" ELSE "collect"
                   /\ UNCHANGED <<outcome, result, nextTask>>
              ELSE /\ pc' = "unwind"
                   /\ outcome' = "TypeError"
                   /\ \E cancel \in BOOLEAN :
                        IF cancel
                          THEN result' = CancelPending /\ nextTask' = numFiles + 1
                          ELSE UNCHANGED <<result, nextTask>>
                   /\ UNCHANGED <<stats, collected>>
    /\ UNCHANGED <<run, raised, cfgVars, out0, fsVars, promptVars, wtask, wpc, wtmp,
                   report, reports, httpStatus, progress, pureVars>>

\* ThreadPoolExecutor.__exit__: shutdown(wait=True) with an exception in flight.
Join ==
    /\ pc = "unwind"
    /\ \A w \in Workers : wtask[w] = 0
    /\ \A f \in 1..numFiles : result[f].st # "pending"
    /\ pc' = "done"
    /\ UNCHANGED <<run, outcome, raised, cfgVars, out0, fsVars, promptVars, poolVars,
                   collected, stats, report, reports, httpStatus, progress, pureVars>>

\* generate_report(stats), in both files: the percentage divides by
\* total_original_size.
GenerateReport ==
    /\ pc = "report"
    /\ IF stats.total_original_size = 0
         THEN /\ Finish("ZeroDivisionError")
              /\ UNCHANGED report
         ELSE /\ report' = generate_report(stats)
              /\ Finish("returned")
    /\ reports' = reports + 1
    /\ UNCHANGED <<run, raised, cfgVars, out0, fsVars, promptVars, poolVars,
                   collected, stats, httpStatus, progress, pureVars>>

\* ---------------------------------------------------------------- convert_to_webp.py
\* convert_images_to_webp up to the stats dictionary: isdir() decides.
LegacyEnter ==
    /\ variant = "legacy"
    /\ pc = "start"
    /\ IF srcIsDir
         THEN /\ pc' = "discover"
              /\ stats' = EmptyStats
              /\ UNCHANGED outcome
         ELSE /\ Finish("returned")
              /\ UNCHANGED stats
    /\ UNCHANGED <<run, raised, cfgVars, out0, fsVars, promptVars, poolVars, collected,
                   report, reports, httpStatus, progress, pureVars>>

\* file_list = get_image_files(source_folder): an empty list goes on too.
LegacyDiscover ==
    /\ variant = "legacy"
    /\ pc = "discover"
    /\ pc' = "collision"
    /\ UNCHANGED <<run, outcome, raised, cfgVars, out0, fsVars, promptVars, poolVars,
                   collected, stats, report, reports, httpStatus, progress, pureVars>>

\* shutil.move(src, dst) of the output root to the backup name of second ts:
\* a rename when dst does not exist; into dst when dst is a directory; an
\* Error when dst/<basename(src)> exists as well; a FileExistsError when src is
\* a directory and dst a regular file.
MoveRaises(ts) ==
    \/ backup[ts].top = NotADir
    \/ backup[ts].top # NoTree /\ backup[ts].inner # NoTree

Moved(ts) ==
    IF backup[ts].top = NoTree
      THEN [backup EXCEPT ![ts].top = out]
      ELSE [backup EXCEPT ![ts].inner = out]

\* convert_to_webp.create_output_folder: backup_<int(time())>, then makedirs.
LegacyCreateOutputFolder ==
    /\ variant = "legacy"
    /\ pc = "collision"
    /\ IF out # NoTree
         THEN \E ts \in now..MaxTime :
                /\ now' = ts
                /\ IF MoveRaises(ts)
                     THEN /\ raised' = IF backup[ts].top = NotADir
                                          THEN "FileExistsError" ELSE "Error"
                          /\ Finish(IF backup[ts].top = NotADir
                                      THEN "FileExistsError" ELSE "Error")
                          /\ UNCHANGED <<out, backup, outFiles, fsOps, made, creates>>
                     ELSE /\ backup' = Moved(ts)
                          /\ out' = NewTree(NoTree, run)
                          /\ made' = made \cup {run}
                          /\ creates' = creates + 1
                          /\ outFiles' = {}
                          /\ fsOps' = fsOps \cup {"move", "mkdir"}
                          /\ pc' = "dispatch"
                          /\ UNCHANGED <<outcome, raised>>
         ELSE /\ out' = NewTree(out, run)
              /\ made' = made \cup {run}
              /\ creates' = creates + 1
              /\ outFiles' = {}
              /\ fsOps' = fsOps \cup {"mkdir"}
              /\ pc' = "dispatch"
              /\ UNCHANGED <<outcome, raised, backup, now>>
    /\ UNCHANGED <<run, cfgVars, out0, promptVars, poolVars, collected, stats,
                   report, reports, httpStatus, progress, pureVars>>

\* The worker of w is done with its file.
Idle(w) ==
    /\ wtask' = [wtask EXCEPT ![w] = 0]
    /\ wpc' = [wpc EXCEPT ![w] = "idle"]

\* process_file lines 38-44: getsize, then the load of stats['total_original_size'].
LegacyGetSize(w) ==
    /\ variant = "legacy"
    /\ wpc[w] = "getsize"
    /\ IF kind[wtask[w]] = "vanished"
         THEN \* os.path.getsize raises outside the try: the future holds the exception
              /\ result' = [result EXCEPT ![wtask[w]] = Raised]
              /\ Idle(w)
              /\ UNCHANGED wtmp
         ELSE /\ wtmp' = [wtmp EXCEPT ![w] = stats.total_original_size]
              /\ wpc' = [wpc EXCEPT ![w] = "store_original"]
              /\ UNCHANGED <<result, wtask>>
    /\ UNCHANGED <<run, pc, outcome, raised, cfgVars, out0, fsVars, promptVars,
                   nextTask, collected, stats, report, reports, httpStatus, progress, pureVars>>

\* line 44: the store of stats['total_original_size'].
LegacyStoreOriginal(w) ==
    /\ variant = "legacy"
    /\ wpc[w] = "store_original"
    /\ stats' = [stats EXCEPT !.total_original_size = wtmp[w] + OrigSize(wtask[w])]
    /\ wtmp' = [wtmp EXCEPT ![w] = 0]
    /\ wpc' = [wpc EXCEPT ![w] = "convert"]
    /\ UNCHANGED <<run, pc, outcome, raised, cfgVars, out0, fsVars, promptVars,
                   nextTask, result, collected, wtask,
                   report, reports, httpStatus, progress, pureVars>>

\* lines 46-51 and 53-54: the conversion, then the load of
\* stats['total_converted_size']; any exception is logged and the call returns.
LegacyConvert(w) ==
    /\ variant = "legacy"
    /\ wpc[w] = "convert"
    /\ IF kind[wtask[w]] = "ok"
         THEN /\ outFiles' = outFiles \cup {wtask[w]}
              /\ fsOps' = fsOps \cup {"write"}
              /\ wtmp' = [wtmp EXCEPT ![w] = stats.total_converted_size]
              /\ wpc' = [wpc EXCEPT ![w] = "store_converted"]
              /\ UNCHANGED <<result, wtask>>
         ELSE /\ result' = [result EXCEPT ![wtask[w]] = ReturnedNone]
              /\ Idle(w)
              /\ UNCHANGED <<outFiles, fsOps, wtmp>>
    /\ UNCHANGED <<run, pc, outcome, raised, cfgVars, out0, out, backup, now, made, creates,
                   promptVars, nextTask, collected, stats,
                   report, reports, httpStatus, progress, pureVars>>

\* line 51: the store of stats['total_converted_size'].
LegacyStoreConverted(w) ==
    /\ variant = "legacy"
    /\ wpc[w] = "store_converted"
    /\ stats' = [stats EXCEPT !.total_converted_size = wtmp[w] + ConvSize(wtask[w])]
    /\ wtmp' = [wtmp EXCEPT ![w] = 0]
    /\ wpc' = [wpc EXCEPT ![w] = "load_count"]
    /\ UNCHANGED <<run, pc, outcome, raised, cfgVars, out0, fsVars, promptVars,
                   nextTask, result, collected, wtask,
                   report, reports, httpStatus, progress, pureVars>>

\* line 52: the load of stats['conversion_count'].
LegacyLoadCount(w) ==
    /\ variant = "legacy"
    /\ wpc[w] = "load_count"
    /\ wtmp' = [wtmp EXCEPT ![w] = stats.conversion_count]
    /\ wpc' = [wpc EXCEPT ![w] = "store_count"]
    /\ UNCHANGED <<run, pc, outcome, raised, cfgVars, out0, fsVars, promptVars,
                   nextTask, result, collected, wtask, stats,
                   report, reports, httpStatus, progress, pureVars>>

\* line 52: the store of stats['conversion_count']; process_file returns.
LegacyStoreCount(w) ==
    /\ variant = "legacy"
    /\ wpc[w] = "store_count"
    /\ stats' = [stats EXCEPT !.conversion_count = wtmp[w] + 1]
    /\ wtmp' = [wtmp EXCEPT ![w] = 0]
    /\ result' = [result EXCEPT ![wtask[w]] = ReturnedNone]
    /\ Idle(w)
    /\ UNCHANGED <<run, pc, outcome, raised, cfgVars, out0, fsVars, promptVars,
                   nextTask, collected, report, reports, httpStatus, progress, pureVars>>

\* list(executor.map(...)): the results in list order; an exception held by a
\* future is re-raised, and the result iterator cancels the pending futures
\* on its way out.
LegacyCollect ==
    /\ variant = "legacy"
    /\ pc = "collect"
    /\ collected < numFiles
    /\ LET r == result[collected + 1] IN
         /\ r.st \in {"none", "raised"}
         /\ IF r.st = "none"
              THEN /\ collected' = collected + 1
                   /\ pc' = IF LoopDone(collected + 1) THEN "report" ELSE "collect"
                   /\ UNCHANGED <<outcome, result, nextTask>>
              ELSE /\ pc' = "unwind"
                   /\ outcome' = "FileNotFoundError"
                   /\ result' = CancelPending
                   /\ nextTask' = numFiles + 1
                   /\ UNCHANGED collected
    /\ UNCHANGED <<run, raised, cfgVars, out0, fsVars, promptVars, wtask, wpc, wtmp,
                   stats, report, reports, httpStatus, progress, pureVars>>

\* ---------------------------------------------------------------- app.py
\* validate_and_convert after the call of convert_images: 'Conversion
\* completed' when it returns, 400 for a ValueError, 500 for anything else.
response(how) ==
    IF how = "returned" THEN 200
    ELSE IF how = "ValueError" THEN 400
    ELSE 500

\* The /convert handler answers the request.
Respond ==
    /\ variant = "served"
    /\ pc = "done"
    /\ httpStatus = 0
    /\ httpStatus' = response(outcome)
    /\ UNCHANGED <<run, pc, outcome, raised, cfgVars, out0, fsVars, promptVars, poolVars,
                   collected, stats, report, reports, progress, pureVars>>

\* ---------------------------------------------------------------- runs
\* The program is started again on the same source folder.
Rerun ==
    /\ pc = "done"
    /\ variant = "served" => httpStatus # 0
    /\ run < MaxRuns
    /\ run' = run + 1
    /\ pc' = "start"
    /\ outcome' = "running"
    /\ raised' = "none"
    /\ out0' = out
    /\ outFiles' = {}
    /\ fsOps' = {}
    /\ prompts' = 0
    /\ answer' = "none"
    /\ nextTask' = 1
    /\ result' = [f \in Files |-> Pending]
    /\ collected' = 0
    /\ wtmp' = [w \in Workers |-> 0]
    /\ stats' = EmptyStats
    /\ report' = NoReport
    /\ creates' = 0
    /\ reports' = 0
    /\ httpStatus' = 0
    /\ UNCHANGED <<cfgVars, out, backup, now, made, wtask, wpc, progress, pureVars>>

\* src/src: the interactive command line and the HTTP handler.
NextModular ==
    \/ Enter
    \/ Discover
    \/ CreateOutputFolder
    \/ Prompt
    \/ Dispatch
    \/ \E w \in Workers : Take(w)
    \/ \E w \in Workers : Process(w)
    \/ Collect
    \/ Join
    \/ GenerateReport
    \/ Respond
    \/ Rerun

\* src/convert_to_webp.py.
NextLegacy ==
    \/ LegacyEnter
    \/ LegacyDiscover
    \/ LegacyCreateOutputFolder
    \/ \E w \in Workers : LegacyGetSize(w)
    \/ \E w \in Workers : LegacyStoreOriginal(w)
    \/ \E w \in Workers : LegacyConvert(w)
    \/ \E w \in Workers : LegacyStoreConverted(w)
    \/ \E w \in Workers : LegacyLoadCount(w)
    \/ \E w \in Workers : LegacyStoreCount(w)
    \/ LegacyCollect
    \/ Dispatch
    \/ \E w \in Workers : Take(w)
    \/ Join
    \/ GenerateReport
    \/ Rerun

Next == NextModular \/ NextLegacy

Spec == Init /\ [][Next]_vars

InitModular == Init /\ variant \in Modular
SpecModular == InitModular /\ [][NextModular]_vars

InitLegacy == Init /\ variant = "legacy"
SpecLegacy == InitLegacy /\ [][NextLegacy]_vars

\* Both programs with a pool of one thread: the handling of the output
\* folder does not depend on the size of the pool.
InitFolders == Init /\ threads = 1
SpecFolders == InitFolders /\ [][Next]_vars

\* ---------------------------------------------------------------- the parts on their own
\* The one state of a run that the checks of the pure parts keep fixed.
MainIdle ==
    /\ MainInit
    /\ variant = "cli"
    /\ numFiles = 0
    /\ threads = 1
    /\ out = NoTree

\* ---------------------------------------------------------------- get_image_files
MaxEntries == 2
MaxDepth == 1

\* Names of directory entries, one character per element.
Names ==
    { <<"a", ".", "p", "n", "g">>,
      <<"a", ".", "P", "N", "G">>,
      <<"a", ".", "J", "p", "g">>,
      <<"a", ".", "j", "p", "e", "g">>,
      <<"a", ".", "w", "e", "b", "p">>,
      <<"a", "p", "n", "g">>,
      <<"a", ".", "t", "x", "t">> }

\* An entry of the tree under the source folder: its directory's depth
\* below the root, its name, and whether it is a directory.
Entries == [depth : 0..MaxDepth, name : Names, isDir : BOOLEAN]

\* str.lower() on one character.
LowerChar(c) ==
    CASE c = "P" -> "p"
      [] c = "N" -> "n"
      [] c = "G" -> "g"
      [] c = "J" -> "j"
      [] OTHER -> c

\* str.lower()
LowerName(name) == [i \in 1..Len(name) |-> LowerChar(name[i])]

\* str.endswith(suffix), case-sensitive as in Python.
endswith(name, suffix) ==
    /\ Len(name) >= Len(suffix)
    /\ SubSeq(name, Len(name) - Len(suffix) + 1, Len(name)) = suffix

\* enums.ImageFormat: the values of its members.
ImageFormat ==
    { <<"p", "n", "g">>, <<"j", "p", "e", "g">>, <<"j", "p", "g">>, <<"w", "e", "b", "p">> }

\* patterns = [f"*.{img_format.value.lower()}" for img_format in ImageFormat],
\* each by the suffix it asks for.
patterns == { <<".">> \o LowerName(v) : v \in ImageFormat }

\* utils.get_image_files: how often each entry is in the returned list.
\* Path.rglob yields every entry, directories too, whose name matches.
get_image_files(tree) ==
    [e \in tree |-> Cardinality({p \in patterns : endswith(e.name, p)})]

\* convert_to_webp.get_image_files: os.walk yields the non-directories.
legacy_get_image_files(tree) ==
    [e \in tree |->
        IF ~e.isDir /\ \E x \in { <<"p", "n", "g">>, <<"j", "p", "e", "g">>, <<"j", "p", "g">> } :
                          endswith(e.name, x)
          THEN 1 ELSE 0]

\* The other pure parts stay unused.
OnlyDiscovery ==
    /\ boundary = Unused
    /\ merge = Unused
    /\ sched = Unused
    /\ paths = Unused

InitDiscovery ==
    /\ MainIdle
    /\ OnlyDiscovery
    /\ discovery = [st |-> "tree", tree |-> {}, found |-> <<>>]

\* One more entry under the source folder.
AddEntry(e) ==
    /\ discovery.st = "tree"
    /\ Cardinality(discovery.tree) < MaxEntries
    /\ \A o \in discovery.tree : ~(o.depth = e.depth /\ o.name = e.name)
    /\ discovery' = [discovery EXCEPT !.tree = @ \cup {e}]
    /\ UNCHANGED <<mainVars, boundary, merge, sched, paths>>

ListModular ==
    /\ discovery.st = "tree"
    /\ discovery' = [st |-> "modular", tree |-> discovery.tree,
                     found |-> get_image_files(discovery.tree)]
    /\ UNCHANGED <<mainVars, boundary, merge, sched, paths>>

ListLegacy ==
    /\ discovery.st = "tree"
    /\ discovery' = [st |-> "legacy", tree |-> discovery.tree,
                     found |-> legacy_get_image_files(discovery.tree)]
    /\ UNCHANGED <<mainVars, boundary, merge, sched, paths>>

NextDiscovery ==
    \/ \E e \in Entries : AddEntry(e)
    \/ ListModular
    \/ ListLegacy

SpecDiscovery == InitDiscovery /\ [][NextDiscovery]_vars

\* ---------------------------------------------------------------- the boundary
\* constants.py is not among the sources; convert.py imports these two names
\* from it. The values are the form defaults of app.py.
DEFAULT_QUALITY == 80
DEFAULT_THREADS == 16

\* What is typed at a prompt or sent in a form field, one character per element.
Texts ==
    { <<>>, <<"0">>, <<"1">>, <<"5">>, <<"1", "0", "0">>, <<"1", "0", "1">>,
      <<"5", "0", "0">>, <<"-", "1">>, <<"x">> }

DigitValue(c) ==
    CASE c = "0" -> 0 [] c = "1" -> 1 [] c = "2" -> 2 [] c = "3" -> 3 [] c = "4" -> 4
      [] c = "5" -> 5 [] c = "6" -> 6 [] c = "7" -> 7 [] c = "8" -> 8 [] c = "9" -> 9

\* str.isdigit()
isdigit(s) ==
    /\ Len(s) > 0
    /\ \A i \in 1..Len(s) : s[i] \in {"0", "1", "2", "3", "4", "5", "6", "7", "8", "9"}

\* The value of a string of decimal digits.
RECURSIVE Decimal(_)
Decimal(s) ==
    IF s = <<>> THEN 0
    ELSE 10 * Decimal(SubSeq(s, 1, Len(s) - 1)) + DigitValue(s[Len(s)])

\* int(s): digits with an optional minus sign, a ValueError otherwise.
int(s) ==
    IF isdigit(s) THEN [ok |-> TRUE, val |-> Decimal(s)]
    ELSE IF Len(s) > 1 /\ s[1] = "-" /\ isdigit(Tail(s))
           THEN [ok |-> TRUE, val |-> 0 - Decimal(Tail(s))]
           ELSE [ok |-> FALSE, val |-> 0]

\* request.form.get(field, default) with the field absent or sent as `raw`.
form_get(sent, raw, default) == IF sent THEN raw ELSE default

\* The body of validate_and_convert up to the call of convert_images, for a
\* valid source folder: what it answers, or that it calls.
validate_and_convert(q, t) ==
    IF ~isdigit(q) \/ ~isdigit(t)
      THEN [st |-> "rejected", quality |-> 0, threads |-> 0]
    ELSE IF ~(0 <= Decimal(q) /\ Decimal(q) <= 100)
      THEN [st |-> "rejected", quality |-> 0, threads |-> 0]
    ELSE IF Decimal(t) < 1
      THEN [st |-> "rejected", quality |-> 0, threads |-> 0]
    ELSE [st |-> "entered", quality |-> Decimal(q), threads |-> Decimal(t)]

\* The lambda of get_user_settings, for both settings.
positive_int(x) == x > 0

\* utils.validate_input with conversion_func = int and a default:
\* ok is FALSE when it returns None.
validate_input(user_input, default) ==
    IF user_input # <<>>
      THEN IF int(user_input).ok /\ positive_int(int(user_input).val)
             THEN int(user_input)
             ELSE [ok |-> FALSE, val |-> 0]
      ELSE [ok |-> TRUE, val |-> default]

OnlyBoundary ==
    /\ discovery = Unused
    /\ merge = Unused
    /\ sched = Unused
    /\ paths = Unused

InitBoundary ==
    /\ MainIdle
    /\ OnlyBoundary
    /\ boundary \in [st : {"start"}, path : {"http", "cli"}, rawq : {<<>>}, rawt : {<<>>},
                      refused : {<<"x">>}, quality : {0}, threads : {0}]

\* POST /convert with a valid source folder.
HttpConvert ==
    /\ boundary.st = "start"
    /\ boundary.path = "http"
    /\ \E sentq, sentt \in BOOLEAN : \E rq, rt \in Texts :
         LET q == form_get(sentq, rq, <<"8", "0">>)
             t == form_get(sentt, rt, <<"1", "6">>)
             v == validate_and_convert(q, t)
         IN boundary' = [boundary EXCEPT !.st = v.st, !.rawq = q, !.rawt = t,
                                         !.quality = v.quality, !.threads = v.threads]
    /\ UNCHANGED <<mainVars, discovery, merge, sched, paths>>

\* One pass of the loop of get_user_input for the quality.
CliQuality ==
    /\ boundary.st = "start"
    /\ boundary.path = "cli"
    /\ \E raw \in Texts :
         LET v == validate_input(raw, DEFAULT_QUALITY) IN
         boundary' = IF v.ok
                       THEN [boundary EXCEPT !.st = "ask_threads", !.rawq = raw,
                                             !.quality = v.val]
                       ELSE [boundary EXCEPT !.refused = raw]
    /\ UNCHANGED <<mainVars, discovery, merge, sched, paths>>

\* One pass of the loop of get_user_input for the threads; main then calls
\* convert_images with what get_user_settings returned.
CliThreads ==
    /\ boundary.st = "ask_threads"
    /\ \E raw \in Texts :
         LET v == validate_input(raw, DEFAULT_THREADS) IN
         boundary' = IF v.ok
                       THEN [boundary EXCEPT !.st = "entered", !.rawt = raw,
                                             !.threads = v.val]
                       ELSE [boundary EXCEPT !.rawt = raw]
    /\ UNCHANGED <<mainVars, discovery, merge, sched, paths>>

NextBoundary ==
    \/ HttpConvert
    \/ CliQuality
    \/ CliThreads

SpecBoundary == InitBoundary /\ [][NextBoundary]_vars

\* ---------------------------------------------------------------- merging results
MaxResults == 3

\* What process_file returns: (original_size, converted_size, files_converted).
ResultValues == { <<0, 0, 0>>, <<3, 1, 1>>, <<5, 2, 1>> }

\* The results of a run, in the order of the file list.
ResultLists == UNION { [1..n -> ResultValues] : n \in 0..MaxResults }

OnlyMerge ==
    /\ discovery = Unused
    /\ boundary = Unused
    /\ sched = Unused
    /\ paths = Unused

InitMerge ==
    /\ MainIdle
    /\ OnlyMerge
    /\ merge \in [st : {"merging"}, todo : ResultLists, merged : {{}}, acc : {EmptyStats}]

\* conversion_stats = update_conversion_stats(conversion_stats, ...) for the
\* i-th result, whichever results were merged before it.
MergeOne(i) ==
    /\ merge.st = "merging"
    /\ i \in DOMAIN merge.todo \ merge.merged
    /\ merge' = [merge EXCEPT
                    !.merged = @ \cup {i},
                    !.acc = update_conversion_stats(@, merge.todo[i][1], merge.todo[i][2],
                                                    merge.todo[i][3])]
    /\ UNCHANGED <<mainVars, discovery, boundary, sched, paths>>

NextMerge == \E i \in 1..MaxResults : MergeOne(i)

SpecMerge == InitMerge /\ [][NextMerge]_vars

\* ---------------------------------------------------------------- work items
MaxFileCount == 70

Min(a, b) == IF a <= b THEN a ELSE b
Max(a, b) == IF a >= b THEN a ELSE b

\* The files of the list are cut into batches of the size of the scheduling
\* contract, one worker call per batch.
batch_size_by_count(fileCount, threadCount) == Max(1, fileCount \div (threadCount * 32))

\* executor.map(worker_partial, file_list) and executor.map(partial(
\* process_file, ...), files): one call of the worker per element of the
\* list; the worker takes one file_path.
batch_size(fileCount, threadCount) == 1

OnlySched ==
    /\ discovery = Unused
    /\ boundary = Unused
    /\ merge = Unused
    /\ paths = Unused

InitSched ==
    /\ MainIdle
    /\ OnlySched
    /\ sched \in [st : {"map"}, fileCount : 1..MaxFileCount, threadCount : 1..MaxThreads,
                   covered : {0}, invocations : {0}, last : {0}]

\* executor.map submits the next call of the worker: which files of the
\* list it is given.
Submit ==
    /\ sched.st = "map"
    /\ sched.covered < sched.fileCount
    /\ LET n == Min(batch_size(sched.fileCount, sched.threadCount),
                    sched.fileCount - sched.covered)
       IN sched' = [sched EXCEPT !.covered = @ + n, !.invocations = @ + 1, !.last = n]
    /\ UNCHANGED <<mainVars, discovery, boundary, merge, paths>>

NextSched == Submit

SpecSched == InitSched /\ [][NextSched]_vars

\* ---------------------------------------------------------------- output paths
\* Names of image files in the source tree, one character per element.
SourceNames ==
    { <<"a", ".", "p", "n", "g">>,
      <<"a", ".", "j", "p", "g">>,
      <<"a", ".", "j", "p", "e", "g">>,
      <<"b", ".", "p", "n", "g">> }

\* A file of the list: the depth of its directory below the source folder
\* and its name.
SourceFiles == [depth : 0..MaxDepth, name : SourceNames]

\* The index of the last dot of a name, 0 if it has none.
LastDot(name) ==
    IF \E i \in 1..Len(name) : name[i] = "."
      THEN CHOOSE i \in 1..Len(name) :
             name[i] = "." /\ \A j \in (i + 1)..Len(name) : name[j] # "."
      ELSE 0

\* PurePath.with_suffix(suffix) of a file name; os.path.splitext(p)[0] + suffix.
with_suffix(name, suffix) ==
    IF LastDot(name) > 1
      THEN SubSeq(name, 1, LastDot(name) - 1) \o suffix
      ELSE name \o suffix

\* output_folder / file_path.relative_to(source_folder).with_suffix(".webp"):
\* the same directory below the output root, the suffix replaced.
output_file_path(f) ==
    [depth |-> f.depth, name |-> with_suffix(f.name, <<".", "w", "e", "b", "p">>)]

OnlyPaths ==
    /\ discovery = Unused
    /\ boundary = Unused
    /\ merge = Unused
    /\ sched = Unused

InitPaths ==
    /\ MainIdle
    /\ OnlyPaths
    /\ paths = [st |-> "list", files |-> {}, todo |-> {}, outTree |-> {}, count |-> 0]

\* One more image file in the source tree.
AddSource(f) ==
    /\ paths.st = "list"
    /\ Cardinality(paths.files) < MaxEntries
    /\ paths' = [paths EXCEPT !.files = @ \cup {f}]
    /\ UNCHANGED <<mainVars, discovery, boundary, merge, sched>>

\* The list is handed to the pool.
StartConversions ==
    /\ paths.st = "list"
    /\ paths' = [paths EXCEPT !.st = "convert", !.todo = paths.files]
    /\ UNCHANGED <<mainVars, discovery, boundary, merge, sched>>

\* process_file on a good image: img.save(output_file_path) creates or
\* overwrites the file, and it counts 1.
ConvertOne(f) ==
    /\ paths.st = "convert"
    /\ f \in paths.todo
    /\ paths' = [paths EXCEPT !.todo = @ \ {f},
                              !.outTree = @ \cup {output_file_path(f)},
                              !.count = @ + 1]
    /\ UNCHANGED <<mainVars, discovery, boundary, merge, sched>>

NextPaths ==
    \/ \E f \in SourceFiles : AddSource(f)
    \/ StartConversions
    \/ \E f \in SourceFiles : ConvertOne(f)

SpecPaths == InitPaths /\ [][NextPaths]_vars

\* ---------------------------------------------------------------- properties
RECURSIVE SumOver(_, _)
\* The sum of Size(f), a function on files, over the files of S.
SumOver(S, Size) ==
    IF S = {} THEN 0
    ELSE LET f == CHOOSE x \in S : TRUE IN Size[f] + SumOver(S \ {f}, Size)

OrigSizes == [f \in Files |-> OrigSize(f)]
ConvSizes == [f \in Files |-> ConvSize(f)]

Discovered == 1..numFiles
Converted == {f \in Discovered : kind[f] = "ok"}

\* The run of convert_images got as far as the pool and has ended.
PoolRunEnded == pc = "done" /\ srcIsDir /\ raised = "none" /\ numFiles > 0

\* C1: in convert_images every failing file contributes (0,0,0), every file
\* is processed and generate_report is reached, whichever files fail.
C1_FailuresAbsorbed ==
    (variant \in Modular /\ PoolRunEnded) =>
        /\ outcome # "TypeError"
        /\ \A f \in Discovered :
             /\ result[f].st = "value"
             /\ kind[f] # "ok" => result[f].val = <<0, 0, 0>>
        /\ stats = [total_original_size |-> SumOver(Converted, OrigSizes),
                    total_converted_size |-> SumOver(Converted, ConvSizes),
                    conversion_count |-> Cardinality(Converted)]

\* The files whose conversion fails are corrupt ones (none has vanished).
OnlyCorrupt == \A f \in Discovered : kind[f] # "vanished"

\* C2: in convert_images_to_webp a file whose conversion fails (a corrupt
\* file among valid ones) does not abort the run and adds nothing:
\* total_original_size is the sum over the converted files and
\* conversion_count is their number.
C2_FailedFileAddsNothing ==
    (variant = "legacy" /\ PoolRunEnded /\ OnlyCorrupt) =>
        /\ outcome \in {"returned", "ZeroDivisionError"}
        /\ stats.total_original_size = SumOver(Converted, OrigSizes)
        /\ stats.conversion_count = Cardinality(Converted)

\* What the calls of convert_to_webp.process_file that returned have added.
Completed == {f \in Discovered : result[f].st = "none"}

\* C3: in convert_images_to_webp no increment of the shared stats is lost:
\* the final totals are the sums of what each call of process_file added.
C3_NoLostUpdate ==
    (variant = "legacy" /\ pc \in {"report", "done"}) =>
        /\ stats.total_original_size = SumOver(Completed, OrigSizes)
        /\ stats.total_converted_size = SumOver(Completed \cap Converted, ConvSizes)
        /\ stats.conversion_count = Cardinality(Completed \cap Converted)

\* C4: at the end of a run every discovered file has been handed to a
\* worker once, and a run over no file ends successfully with nothing handed out.
C4_EveryFileDispatchedOnce ==
    (pc = "done" /\ srcIsDir /\ raised = "none") =>
        /\ \A f \in Discovered : result[f].st \in {"value", "none", "raised"}
        /\ numFiles = 0 => (outcome = "returned" /\ nextTask = 1)

\* Nothing of the run has touched the file system or the pool.
NothingDone ==
    /\ out = out0
    /\ backup = NoBackup
    /\ fsOps = {}
    /\ outFiles = {}
    /\ nextTask = 1
    /\ \A w \in Workers : wtask[w] = 0
    /\ \A f \in Files : result[f] = Pending

Declined == pc = "done" /\ raised = "OperationCancelledError"
Exhausted == pc = "done" /\ raised = "ValueError"

\* C5: while the prompt is open, and after the user declined or gave no
\* valid answer, the run has created, deleted and renamed nothing and has
\* started no worker; the existing output folder is gone only after a 'y'.
C5_NoEffectUnlessConfirmed ==
    variant \in Modular =>
        /\ (pc = "prompt" \/ Declined \/ Exhausted) => NothingDone
        /\ (out0 # NoTree /\ out # out0) => answer = "y"

C5_Witness ==
    /\ variant \in Modular
    /\ Declined
    /\ out0 # NoTree
    /\ out = out0
    /\ answer = "n"
    /\ prompts = 2

\* C6: the prompt is shown at most max_retries times, and a run that ends
\* at the prompt, by an 'n' or by running out of retries, ends with
\* OperationCancelledError.
C6_SameCancelledKind ==
    variant \in Modular =>
        /\ prompts <= max_retries
        /\ (pc = "done" /\ prompts > 0 /\ answer # "y") => raised = "OperationCancelledError"

\* C7: a served run never waits at the console prompt and never deletes an
\* existing output folder: it is moved to a backup name.
C7_ServedNeverPrompts ==
    variant = "served" =>
        /\ pc # "prompt"
        /\ "rmtree" \notin fsOps
        /\ (out0 # NoTree /\ out # out0) => \E ts \in Times : backup[ts].top = out0

\* C8: under auto-backup every earlier output tree still exists as a backup
\* folder of its own: never deleted, never inside another run's tree.
C8_EarlierOutputKept ==
    variant = "legacy" =>
        \A t \in made \ {out} : \E ts \in Times : backup[ts].top = t

\* C9: generate_report never fails on a division by zero, and it reports 0
\* percent when total_original_size is 0.
C9_ReportGuardsZero ==
    /\ outcome # "ZeroDivisionError"
    /\ (report.emitted /\ stats.total_original_size = 0) => report.reduction_percentage = 0

\* C10: a run that discovers no file ends without raising, starts no worker,
\* never prompts, and leaves an existing output folder where it is.
C10_EmptyRunIsNoOp ==
    (srcIsDir /\ numFiles = 0) =>
        /\ outcome \in {"running", "returned"}
        /\ nextTask = 1
        /\ prompts = 0
        /\ fsOps \subseteq {"mkdir"}
        /\ out0 # NoTree => out = out0

\* A conversion of this run is in flight or not yet started.
ConversionOutstanding ==
    \/ \E w \in Workers : wtask[w] # 0
    \/ \E f \in Discovered : result[f].st = "pending"

\* generate_report has started in this run.
ReportStarted == pc = "report" \/ reports > 0

\* The barrier half of C11: the report starts only when the pool has been
\* joined with every result collected.
ReportAfterJoin ==
    /\ reports <= 1
    /\ ReportStarted => ~ConversionOutstanding /\ collected = numFiles

\* C11: the report is generated exactly once in a run that dispatched its
\* files, at most once in any run, and only after every dispatched worker has
\* returned.
C11_ReportOnceAfterJoin ==
    /\ ReportAfterJoin
    /\ (pc = "done" /\ creates = 1) => reports = 1

\* The input allow-list of the discovery contract.
AllowList == { <<"p", "n", "g">>, <<"j", "p", "e", "g">>, <<"j", "p", "g">> }

\* A regular file whose extension, compared case-insensitively, is allowed.
ShouldBeFound(e) ==
    /\ ~e.isDir
    /\ \E x \in AllowList : endswith(LowerName(e.name), <<".">> \o x)

\* C12: discovery returns exactly the regular files, at any depth, whose
\* extension is case-insensitively in {png, jpeg, jpg}, each once: no
\* directory, no .webp, no name that only ends in the letters, no miss of an
\* upper-case match.
C12_DiscoveryExact ==
    discovery.st \in {"modular", "legacy"} =>
        \A e \in discovery.tree : discovery.found[e] = IF ShouldBeFound(e) THEN 1 ELSE 0

\* A text that stands for a quality in [0,100].
QualityInRange(raw) == isdigit(raw) /\ Decimal(raw) <= 100

\* C13: on the HTTP and the command-line path convert_images is entered
\* only with quality in [0,100] and threads >= 1, a request with another
\* value is refused, and no quality in [0,100] is refused.
C13_BoundaryValidates ==
    /\ boundary.st = "entered" => boundary.quality \in 0..100 /\ boundary.threads >= 1
    /\ (boundary.st = "rejected" /\ isdigit(boundary.rawt) /\ Decimal(boundary.rawt) >= 1)
           => ~QualityInRange(boundary.rawq)
    /\ boundary.st # "unused" => ~QualityInRange(boundary.refused)

\* The run was cancelled at the collision prompt.
RunCancelled == raised = "OperationCancelledError"

\* C14: a run cancelled at the collision prompt reaches the caller of
\* convert_images as an error, and the HTTP layer answers 200 only for a run
\* that was not cancelled and converted something.
C14_CallerDistinguishes ==
    /\ (pc = "done" /\ RunCancelled) => outcome # "returned"
    /\ httpStatus = 200 => ~RunCancelled /\ stats.conversion_count > 0

\* The k-th field of every result of the list.
Field(todo, k) == [i \in DOMAIN todo |-> todo[i][k]]

\* C15: in whatever order the results of a run are merged with
\* update_conversion_stats, the three totals are the field-wise sums of the
\* results merged so far, and so the same for every permutation.
C15_MergeOrderIrrelevant ==
    merge.st = "merging" =>
        /\ merge.acc.total_original_size = SumOver(merge.merged, Field(merge.todo, 1))
        /\ merge.acc.total_converted_size = SumOver(merge.merged, Field(merge.todo, 2))
        /\ merge.acc.conversion_count = SumOver(merge.merged, Field(merge.todo, 3))

\* Every result of a list of at least two different results has been merged,
\* the second one first or not.
C15_Witness ==
    /\ merge.st = "merging"
    /\ Len(merge.todo) >= 2
    /\ merge.todo[1] # merge.todo[2]
    /\ merge.merged = DOMAIN merge.todo

\* The run has dispatched its files.
Dispatched == pc \in {"collect", "unwind", "report"} \/ (pc = "done" /\ creates = 1)

\* C16: in the served variant the progress object is absent or empty until
\* the run dispatches; from then on it reports numFiles equal to the number of
\* discovered files, and after the last worker has returned its stats equal
\* the final aggregate of the run.
C16_ProgressFollowsRun ==
    variant = "served" =>
        /\ ~Dispatched => (~progress.present \/ progress.stats = EmptyStats)
        /\ Dispatched => progress.present /\ progress.numFiles = numFiles
        /\ (pc = "done" /\ reports = 1) => progress.stats = stats

CollectorMerges ==
    /\ pc = "collect"
    /\ collected' = collected + 1
    /\ result[collected'].st = "value"
    /\ stats' = update_conversion_stats(stats, result[collected'].val[1],
                                        result[collected'].val[2], result[collected'].val[3])
    /\ UNCHANGED <<wtask, wpc, result>>

C19_DistinctOutputPaths ==
    (paths.st = "convert" /\ paths.todo = {}) =>
        /\ \A f, g \in paths.files : f # g => output_file_path(f) # output_file_path(g)
        /\ Cardinality(paths.outTree) = paths.count

\* The step in which create_output_folder returns normally.
FolderCreated == creates' = creates + 1

\* A worker of the run has been dispatched.
WorkStarted ==
    \/ pc \in {"collect", "unwind", "report"}
    \/ \E w \in Workers : wtask[w] # 0

\* C20: when create_output_folder returns normally the output root is a
\* directory made in this run, empty and holding nothing of an earlier run;
\* this happens at most once in a run and before any worker is dispatched,
\* whatever was at the output path before.
C20_FreshFolderOnce ==
    [][/\ FolderCreated =>
            /\ creates = 0
            /\ ~WorkStarted
            /\ out' = run
            /\ run \notin made
            /\ outFiles' = {}
            /\ pc' = "dispatch"
       /\ WorkStarted' => creates' = 1 /\ out' = run']_vars

\* In a second run the folder of the first run was in the way and the new
\* folder has received a file.
C20_Witness ==
    /\ run = 2
    /\ out0 = 1
    /\ creates = 1
    /\ out = 2
    /\ outFiles # {}


====
